---- MODULE Spec2Model ----
(***************************************************************************)
(* Flash-sale purchase path: POST /api/purchase (rate-limit middleware,    *)
(* validation, the BEGIN / SELECT FOR UPDATE / UPDATE / INSERT / COMMIT    *)
(* sequence issued through the shared pg Pool), the stock query, and the   *)
(* Redis fixed-window rate limiter.                                        *)
(*                                                                         *)
(* Every db.query(...) of the handlers is a Pool.query: the pool runs the  *)
(* statement on a client that is executing nothing at that moment (a new   *)
(* client when none is idle and fewer than max exist) and takes the client *)
(* back when the statement has finished.  A transaction is a property of   *)
(* the client (the PostgreSQL session), not of the handler.                *)
(***************************************************************************)
EXTENDS Integers, Sequences, FiniteSets, TLC

\* ------------------------------------------------------------------ bounds
NumHandlers == 2      \* concurrent POST /api/purchase invocations
NumConns    == 2      \* clients the pool is seen to open (<= PoolMax)
InitStock   == 2      \* stock S of the product at start
MaxQty      == 2      \* largest quantity requested
MaxFaults   == 1      \* store statements that raise an error
NumCheckers == 3      \* standalone checkRateLimit calls
MaxN        == 2      \* largest maxRequests of a standalone call
MaxTicks    == 3      \* seconds that pass

\* ------------------------------------------------------- program constants
PoolMax      == 20     \* new Pool({ max: 20 })
UserMax      == 5      \* rateLimitMiddleware(req, 5, 60000, userId)
UserWindowMs == 60000
IpMax        == 10     \* maxRequests: 10 of the IP tier
IpWindowMs   == 60000

Handlers   == 1..NumHandlers
Getter     == NumHandlers + 1            \* the GET stock invocation
Checkers   == (NumHandlers + 2)..(NumHandlers + 1 + NumCheckers)
Callers    == Handlers \cup Checkers     \* everything that calls checkRateLimit
Procs      == Handlers \cup {Getter} \cup Checkers
ConnIds    == 1..NumConns
Products   == {1}                        \* rows of table products
ProductIds == {1, 2}                     \* ids a request may name; 2 has no row
UserOf(h)  == IF h = 1 THEN "u1" ELSE IF h = 2 THEN "u2" ELSE "u3"
Users      == {UserOf(h) : h \in Handlers}
Anonymous  == "anonymous"
ClientIp   == "unknown"                  \* no x-forwarded-for, no x-real-ip
None       == "none"                     \* an absent string field
Empty      == ""                         \* a field that is the empty string
\* userId of the body, userId of the query string, x-real-ip of the requests
\* whose identifiers are resolved
BodyUserIds  == {None, Empty, UserOf(1)}
QueryUserIds == {None, Empty, "q1"}
RealIps      == {None, Empty, "10.0.0.9"}
\* x-forwarded-for of those requests: <<>> when the header is absent, else
\* <<text>>, the text a sequence of addresses and separators
ForwardedFors ==
  { <<>>, << <<>> >>, << <<"10.0.0.1">> >>, << <<"10.0.0.1", ",", "10.0.0.2">> >>,
    << <<"10.0.0.1", ",", "10.0.0.3">> >>, << <<",", "10.0.0.2">> >> }
\* identifier strings `user:<id>` and `ip:<addr>`
Identifiers ==
  ({"user"} \X (Users \cup QueryUserIds \cup {Anonymous, Empty})) \cup
  ({"ip"} \X (RealIps \cup {ClientIp, Empty, "10.0.0.1", "10.0.0.2"}))
\* identifiers of the standalone calls
CheckedIdentifiers == {<<"user", UserOf(1)>>, <<"ip", ClientIp>>}
\* windowMs of the standalone calls
CheckedWindowsMs == {1500}
\* `rate_limit:${identifier}`
Key(identifier) == <<"rate_limit">> \o identifier
Keys       == {Key(i) : i \in Identifiers}
Quantities == 1..MaxQty
\* quantities of the bodies the handler does not reject: any number
AcceptedQuantities == (-1)..MaxQty
NoProduct  == 0                          \* an absent (falsy) productId
NoWrite    == -1

\* row lock modes of PostgreSQL, ordered by strength
LockFree  == 0
KeyShare  == 1        \* foreign-key check of INSERT INTO orders
NoKeyUpd  == 2        \* UPDATE products SET stock
ForUpdate == 3        \* SELECT ... FOR UPDATE

VARIABLES
  stock,        \* committed products.stock
  orders,       \* committed rows of table orders
  nextOrderId,  \* orders_id_seq
  clients,      \* clients the pool holds open
  ctxn,         \* client's session is inside a transaction block
  cwstock,      \* uncommitted stock written in the client's transaction
  cworders,     \* uncommitted orders inserted in the client's transaction
  clock,        \* row locks held by the client's transaction
  pc,           \* position of each handler
  req,          \* request body of each handler
  loc,          \* handler locals: currentStock, newStock, orderId
  resp,         \* response returned by the handler
  faults,       \* statement errors raised so far
  rcount,       \* Redis: value of each counter key, 0 when the key is absent
  rttl,         \* Redis: seconds to live; -1 no expiry, -2 key absent
  rborn,        \* second in which the key was created (its window)
  now,          \* seconds passed
  rl            \* the checkRateLimit call in progress of each caller

dbvars   == <<stock, orders, nextOrderId>>
poolvars == <<clients, ctxn, cwstock, cworders, clock>>
hvars    == <<pc, req, loc, resp>>
redisvars == <<rcount, rttl, rborn>>
vars     == <<stock, orders, nextOrderId, clients, ctxn, cwstock, cworders, clock,
              pc, req, loc, resp, faults, rcount, rttl, rborn, now, rl>>

Max(a, b) == IF a >= b THEN a ELSE b

\* body fields, then the userId of the query string and the two address headers
NoReq  == [productId |-> NoProduct, userId |-> None, quantity |-> 1,
           queryUserId |-> None, forwardedFor |-> <<>>, realIp |-> None]
\* client: the pool client that ran the call's latest statement;
\* wait: the pool client on which the call's statement waits for a row lock
NoLoc  == [currentStock |-> 0, newStock |-> 0, orderId |-> 0, client |-> 0,
           wait |-> 0]
NoHeader == -1                           \* a response header that is not set
NoResp == [status |-> 0, success |-> FALSE, message |-> None, remainingStock |-> 0,
           retryAfter |-> 0, limit |-> 0, remaining |-> NoHeader]
\* at: second of the INCR; until: second of a denial plus its retryAfter;
\* error: the command whose error the catch of checkRateLimit received
NoCall == [pc |-> "none", key |-> <<>>, max |-> 0, window |-> 0, current |-> 0,
           born |-> 0, allowed |-> FALSE, retryAfter |-> 0, at |-> 0, until |-> 0,
           error |-> None]

Response(status, success, message) ==
  [NoResp EXCEPT !.status = status, !.success = success, !.message = message]

\* counters earlier requests of the running window left in Redis
Preloads ==
  { [k \in Keys |-> [count |-> 0, ttl |-> -2]] } \cup
  { [k \in Keys |-> IF k = Key(<<"user", UserOf(1)>>)
                    THEN [count |-> UserMax, ttl |-> 30]
                    ELSE [count |-> 0, ttl |-> -2]] } \cup
  { [k \in Keys |-> IF k = Key(<<"user", UserOf(1)>>)
                    THEN [count |-> UserMax - 1, ttl |-> 30]
                    ELSE [count |-> 0, ttl |-> -2]] } \cup
  { [k \in Keys |-> IF k = Key(<<"ip", ClientIp>>)
                    THEN [count |-> IpMax, ttl |-> 30]
                    ELSE [count |-> 0, ttl |-> -2]] }

Init ==
  /\ stock = [p \in Products |-> InitStock]
  /\ orders = {}
  /\ nextOrderId = 1
  /\ clients = {}
  /\ ctxn = [c \in ConnIds |-> FALSE]
  /\ cwstock = [c \in ConnIds |-> [p \in Products |-> NoWrite]]
  /\ cworders = [c \in ConnIds |-> {}]
  /\ clock = [c \in ConnIds |-> [p \in Products |-> LockFree]]
  /\ pc = [h \in Procs |-> "idle"]
  /\ req = [h \in Procs |-> NoReq]
  /\ loc = [h \in Procs |-> NoLoc]
  /\ resp = [h \in Procs |-> NoResp]
  /\ faults = 0
  /\ \E pre \in Preloads :
       /\ rcount = [k \in Keys |-> pre[k].count]
       /\ rttl = [k \in Keys |-> pre[k].ttl]
  /\ rborn = [k \in Keys |-> 0]
  /\ now = 0
  /\ rl = [k \in Callers |-> NoCall]

\* ------------------------------------------------------------ the pg Pool
\* clients that are executing a statement: one that waits for a row lock
Busy == {loc[h].wait : h \in Procs} \ {0}

\* Pool.query(text): the pool runs the statement on one of its clients that is
\* executing nothing, or on a new client while fewer than max are open, and
\* takes the client back when the statement has finished.  Which clients are
\* free depends on the rest of the traffic on the pool, so the statement may
\* land on any open client or on a new one.
Available ==
  ((clients \cap ConnIds) \ Busy) \cup
    (IF Cardinality(clients) < PoolMax /\ ConnIds \ clients # {}
     THEN {CHOOSE c \in ConnIds \ clients : \A d \in ConnIds \ clients : c <= d}
     ELSE {})

\* pool clients taken by purchase calls for other products
OtherIds == (NumConns + 1)..(NumConns + PoolMax)

\* a purchase call for another product: the pool opens a client for its
\* SELECT ... FOR UPDATE, which waits there for that product's row lock
OtherWait ==
  /\ Cardinality(clients) < PoolMax
  /\ clients' = clients \cup
       {CHOOSE c \in OtherIds \ clients : \A d \in OtherIds \ clients : c <= d}
  /\ UNCHANGED <<dbvars, ctxn, cwstock, cworders, clock, hvars, faults, redisvars,
                 now, rl>>

\* the call for the other product got its lock and finished; its client is
\* closed
OtherDone ==
  /\ clients \ ConnIds # {}
  /\ clients' = clients \
       {CHOOSE c \in clients \ ConnIds : \A d \in clients \ ConnIds : c >= d}
  /\ UNCHANGED <<dbvars, ctxn, cwstock, cworders, clock, hvars, faults, redisvars,
                 now, rl>>

\* ------------------------------------------------------------ PostgreSQL
Conflicts(want, held) ==
  \/ want = ForUpdate /\ held # LockFree
  \/ want = NoKeyUpd /\ held >= NoKeyUpd
  \/ want = KeyShare /\ held = ForUpdate

\* the statement of client c waits for a row lock of another session
Blocked(c, p, want) == \E d \in ConnIds \ {c} : Conflicts(want, clock[d][p])

\* the row version client c reads (READ COMMITTED)
View(c, p) == IF cwstock[c][p] # NoWrite THEN cwstock[c][p] ELSE stock[p]

\* a lock taken outside a transaction block ends with its statement
TakeLock(c, p, mode) ==
  IF ctxn[c] THEN [clock EXCEPT ![c][p] = Max(@, mode)] ELSE clock

\* end of the client's transaction: locks and uncommitted rows are dropped
EndTxn(c) ==
  /\ ctxn' = [ctxn EXCEPT ![c] = FALSE]
  /\ cwstock' = [cwstock EXCEPT ![c] = [p \in Products |-> NoWrite]]
  /\ cworders' = [cworders EXCEPT ![c] = {}]
  /\ clock' = [clock EXCEPT ![c] = [p \in Products |-> LockFree]]

\* the client is open once a statement has run on it
Use(c) == clients' = clients \cup {c}

\* a store statement raises an error: Pool.query releases the client with the
\* error, which destroys it, and the server drops the session's transaction
Destroy(c) ==
  /\ clients' = clients \ {c}
  /\ EndTxn(c)

\* ------------------------------------------------- checkRateLimit
\* Math.ceil(options.windowMs / 1000)
WindowSeconds(windowMs) == (windowMs + 999) \div 1000

\* checkRateLimit(req, { maxRequests, windowMs, identifier }) is entered
Call(identifier, maxRequests, windowMs) ==
  [NoCall EXCEPT !.pc = "incr", !.key = Key(identifier), !.max = maxRequests,
                 !.window = WindowSeconds(windowMs)]

\* mutant of OverLimit: no request is ever over the limit
OverLimit_Never(current, maxRequests) == FALSE

\* mutant of OverLimit: the request that reaches the limit is refused
OverLimit_AtLimit(current, maxRequests) == current >= maxRequests

\* current > options.maxRequests: the check goes on to the TTL lookup
OverLimit(current, maxRequests) == current > maxRequests

\* mutant of RetryAfter: the TTL is returned as it is
RetryAfter_Ttl(ttl, window) == ttl

\* retryAfter: ttl > 0 ? ttl : Math.ceil(options.windowMs / 1000)
RetryAfter(ttl, window) == IF ttl > 0 THEN ttl ELSE window

\* const current = await redis.incr(key)
RLIncr(k) ==
  /\ rl[k].pc = "incr"
  /\ LET key == rl[k].key
         current == rcount[key] + 1
         born == IF rcount[key] = 0 THEN now ELSE rborn[key]
     IN /\ rcount' = [rcount EXCEPT ![key] = current]
        /\ rttl' = [rttl EXCEPT ![key] = IF rcount[key] = 0 THEN -1 ELSE @]
        /\ rborn' = [rborn EXCEPT ![key] = born]
        /\ rl' = [rl EXCEPT ![k] =
                   IF current = 1
                   THEN [@ EXCEPT !.pc = "expire", !.current = current, !.born = born,
                                  !.at = now]
                   ELSE IF OverLimit(current, rl[k].max)
                   THEN [@ EXCEPT !.pc = "ttl", !.current = current, !.born = born,
                                  !.at = now]
                   ELSE [@ EXCEPT !.pc = "done", !.current = current, !.born = born,
                                  !.at = now, !.allowed = TRUE]]
  /\ UNCHANGED <<dbvars, poolvars, hvars, faults, now>>

\* if (current === 1) await redis.expire(key, Math.ceil(options.windowMs / 1000))
RLExpire(k) ==
  /\ rl[k].pc = "expire"
  /\ LET key == rl[k].key
     IN rttl' = [rttl EXCEPT ![key] = IF rcount[key] > 0 THEN rl[k].window ELSE @]
  /\ rl' = [rl EXCEPT ![k] =
             IF OverLimit(rl[k].current, rl[k].max)
             THEN [@ EXCEPT !.pc = "ttl"]
             ELSE [@ EXCEPT !.pc = "done", !.allowed = TRUE]]
  /\ UNCHANGED <<dbvars, poolvars, hvars, faults, rcount, rborn, now>>

\* const ttl = await redis.ttl(key); return { allowed: false, retryAfter }
RLTtl(k) ==
  /\ rl[k].pc = "ttl"
  /\ LET retryAfter == RetryAfter(rttl[rl[k].key], rl[k].window)
     IN rl' = [rl EXCEPT ![k] =
                 [@ EXCEPT !.pc = "done", !.allowed = FALSE,
                           !.retryAfter = retryAfter, !.until = now + retryAfter]]
  /\ UNCHANGED <<dbvars, poolvars, hvars, faults, redisvars, now>>

\* mutant of FailRedis: the catch refuses the request (fail closed)
FailRedis_FailClosed(k) ==
  /\ rl[k].pc \in {"incr", "expire", "ttl"}
  /\ faults < MaxFaults
  /\ faults' = faults + 1
  /\ rl' = [rl EXCEPT ![k] = [@ EXCEPT !.pc = "done", !.allowed = FALSE,
                                        !.error = rl[k].pc]]
  /\ UNCHANGED <<dbvars, poolvars, hvars, redisvars, now>>

\* redis.incr, redis.expire or redis.ttl raises (the command has no effect):
\* catch (error) { return { allowed: true } }
FailRedis(k) ==
  /\ rl[k].pc \in {"incr", "expire", "ttl"}
  /\ faults < MaxFaults
  /\ faults' = faults + 1
  /\ rl' = [rl EXCEPT ![k] = [@ EXCEPT !.pc = "done", !.allowed = TRUE,
                                        !.error = rl[k].pc]]
  /\ UNCHANGED <<dbvars, poolvars, hvars, redisvars, now>>

\* one second passes: Redis counts the expiries down and drops expired keys
Tick ==
  /\ now < MaxTicks
  /\ now' = now + 1
  /\ rcount' = [k \in Keys |-> IF rttl[k] = 1 THEN 0 ELSE rcount[k]]
  /\ rttl' = [k \in Keys |-> IF rttl[k] = 1 THEN -2
                             ELSE IF rttl[k] > 1 THEN rttl[k] - 1 ELSE rttl[k]]
  /\ UNCHANGED <<dbvars, poolvars, hvars, faults, rborn, rl>>

\* a caller outside the purchase path invokes checkRateLimit
StartCheck(k) ==
  /\ rl[k].pc = "none"
  /\ \E i \in CheckedIdentifiers, n \in 1..MaxN, w \in CheckedWindowsMs :
       rl' = [rl EXCEPT ![k] = Call(i, n, w)]
  /\ UNCHANGED <<dbvars, poolvars, hvars, faults, redisvars, now>>

\* ------------------------------------------------- POST /api/purchase
\* positions of a call between its BEGIN and its COMMIT or ROLLBACK
InTransaction == {"select", "rb_notfound", "rb_oos", "update", "insert", "commit"}

\* a || b of JavaScript on strings: an absent or empty string is falsy
Truthy(v) == v # None /\ v # Empty
OrElse(a, b) == IF Truthy(a) THEN a ELSE b

\* mutant of ResolveUser: the query parameter goes before the body's userId
ResolveUser_QueryFirst(userId, queryUserId) ==
  OrElse(OrElse(queryUserId, userId), Anonymous)

\* const finalUserId = userId || searchParams.get('userId') || 'anonymous'
ResolveUser(userId, queryUserId) ==
  OrElse(OrElse(userId, queryUserId), Anonymous)

\* finalUserId of a request without a userId in its query string
FinalUserId(userId) == ResolveUser(userId, None)

\* 'a,b'.split(',')[0]: the text before the first separator
RECURSIVE FirstEntry(_)
FirstEntry(text) ==
  IF text = <<>> \/ Head(text) = "," THEN Empty
  ELSE Head(text) \o FirstEntry(Tail(text))

\* mutant of ResolveIp: x-real-ip goes before x-forwarded-for
ResolveIp_RealFirst(forwardedFor, realIp) ==
  LET first == IF forwardedFor = <<>> THEN None ELSE FirstEntry(forwardedFor[1])
  IN OrElse(OrElse(realIp, first), "unknown")

\* const ip = headers.get('x-forwarded-for')?.split(',')[0] ||
\*            headers.get('x-real-ip') || 'unknown'
ResolveIp(forwardedFor, realIp) ==
  LET first == IF forwardedFor = <<>> THEN None ELSE FirstEntry(forwardedFor[1])
  IN OrElse(OrElse(first, realIp), "unknown")

\* mutant of PostRequest: the body is validated before the rate limiter runs
PostRequest_ValidateFirst(h, requests) ==
  /\ pc[h] = "idle"
  /\ \E r \in requests :
       /\ req' = [req EXCEPT ![h] = r]
       /\ IF r.productId = NoProduct \/ ~Truthy(r.userId)
          THEN /\ resp' = [resp EXCEPT ![h] =
                             Response(400, FALSE, "Missing productId or userId")]
               /\ pc' = [pc EXCEPT ![h] = "done"]
               /\ UNCHANGED rl
          ELSE /\ rl' = [rl EXCEPT ![h] =
                          Call(<<"user", ResolveUser(r.userId, r.queryUserId)>>,
                               UserMax, UserWindowMs)]
               /\ pc' = [pc EXCEPT ![h] = "mw_user"]
               /\ UNCHANGED resp
  /\ UNCHANGED <<dbvars, poolvars, loc, faults, redisvars, now>>

\* the request r arrives: const { productId, userId, quantity = 1 } = body;
\* rateLimitMiddleware(req, 5, 60000, userId) enters the user-tier check
PostRequest(h, requests) ==
  /\ pc[h] = "idle"
  /\ \E r \in requests :
       /\ req' = [req EXCEPT ![h] = r]
       /\ rl' = [rl EXCEPT ![h] =
                  Call(<<"user", ResolveUser(r.userId, r.queryUserId)>>,
                       UserMax, UserWindowMs)]
  /\ pc' = [pc EXCEPT ![h] = "mw_user"]
  /\ UNCHANGED <<dbvars, poolvars, loc, resp, faults, redisvars, now>>

\* a request without query string and without address headers
PostBody(h, quantities) ==
  PostRequest(h, {[NoReq EXCEPT !.productId = p, !.userId = u, !.quantity = q] :
                    p \in ProductIds \cup {NoProduct}, u \in {UserOf(h), None},
                    q \in quantities})

\* a request whose quantity is a positive integer, or absent (default 1)
Post(h) == PostBody(h, Quantities)

\* the 429 of a denied tier
RateLimited(message, retryAfter, limit) ==
  [NoResp EXCEPT !.status = 429, !.message = message,
                 !.retryAfter = IF retryAfter # 0 THEN retryAfter ELSE 60,
                 !.limit = limit, !.remaining = 0]

\* mutant of MwUser: a user-tier denial does not return, the IP tier is checked
MwUser_Fallthrough(h) ==
  /\ pc[h] = "mw_user" /\ rl[h].pc = "done"
  /\ rl' = [rl EXCEPT ![h] =
              Call(<<"ip", ResolveIp(req[h].forwardedFor, req[h].realIp)>>,
                   IpMax, IpWindowMs)]
  /\ pc' = [pc EXCEPT ![h] = "mw_ip"]
  /\ UNCHANGED <<dbvars, poolvars, req, loc, resp, faults, redisvars, now>>

\* if (!userLimit.allowed) return 429; else the IP-tier check is entered
MwUser(h) ==
  /\ pc[h] = "mw_user" /\ rl[h].pc = "done"
  /\ IF ~rl[h].allowed
     THEN /\ resp' = [resp EXCEPT ![h] =
                        RateLimited("Rate limit exceeded for user",
                                    rl[h].retryAfter, rl[h].max)]
          /\ pc' = [pc EXCEPT ![h] = "done"]
          /\ rl' = [rl EXCEPT ![h] = NoCall]
     ELSE /\ rl' = [rl EXCEPT ![h] =
                     Call(<<"ip", ResolveIp(req[h].forwardedFor, req[h].realIp)>>,
                          IpMax, IpWindowMs)]
          /\ pc' = [pc EXCEPT ![h] = "mw_ip"]
          /\ UNCHANGED resp
  /\ UNCHANGED <<dbvars, poolvars, req, loc, faults, redisvars, now>>

\* mutant of MwIp: an IP-tier denial is ignored
MwIp_IgnoreDenial(h) ==
  /\ pc[h] = "mw_ip" /\ rl[h].pc = "done"
  /\ rl' = [rl EXCEPT ![h] = NoCall]
  /\ IF req[h].productId = NoProduct \/ ~Truthy(req[h].userId)
     THEN /\ resp' = [resp EXCEPT ![h] =
                        Response(400, FALSE, "Missing productId or userId")]
          /\ pc' = [pc EXCEPT ![h] = "done"]
     ELSE /\ pc' = [pc EXCEPT ![h] = "begin"]
          /\ UNCHANGED resp
  /\ UNCHANGED <<dbvars, poolvars, req, loc, faults, redisvars, now>>

\* if (!ipLimit.allowed) return 429; return null; then in POST:
\* if (!productId || !userId) return 400; else db.query('BEGIN') is next
MwIp(h) ==
  /\ pc[h] = "mw_ip" /\ rl[h].pc = "done"
  /\ rl' = [rl EXCEPT ![h] = NoCall]
  /\ IF ~rl[h].allowed
     THEN /\ resp' = [resp EXCEPT ![h] =
                        RateLimited("Rate limit exceeded for IP",
                                    rl[h].retryAfter, IpMax)]
          /\ pc' = [pc EXCEPT ![h] = "done"]
     ELSE IF req[h].productId = NoProduct \/ ~Truthy(req[h].userId)
     THEN /\ resp' = [resp EXCEPT ![h] =
                        Response(400, FALSE, "Missing productId or userId")]
          /\ pc' = [pc EXCEPT ![h] = "done"]
     ELSE /\ pc' = [pc EXCEPT ![h] = "begin"]
          /\ UNCHANGED resp
  /\ UNCHANGED <<dbvars, poolvars, req, loc, faults, redisvars, now>>

\* const redis = await getRedisClient() of the first check of the process:
\* redisClient is null, createClient(...).connect() rejects.  The await is
\* outside the try of checkRateLimit and rateLimitMiddleware has no try, so the
\* rejection reaches the catch of POST: 500
FailGetRedisClient(h) ==
  /\ pc[h] = "mw_user" /\ rl[h].pc = "incr"
  /\ \A g \in Handlers \ {h} : pc[g] = "idle"
  /\ faults < MaxFaults
  /\ faults' = faults + 1
  /\ rl' = [rl EXCEPT ![h] = NoCall]
  /\ resp' = [resp EXCEPT ![h] = Response(500, FALSE, "Internal server error")]
  /\ pc' = [pc EXCEPT ![h] = "done"]
  /\ UNCHANGED <<dbvars, poolvars, req, loc, redisvars, now>>

\* await db.query('BEGIN')
ExecBegin(h, c) ==
  /\ pc[h] = "begin"
  /\ ctxn' = [ctxn EXCEPT ![c] = TRUE]
  /\ Use(c)
  /\ pc' = [pc EXCEPT ![h] = "select"]
  /\ loc' = [loc EXCEPT ![h].client = c]
  /\ UNCHANGED <<dbvars, cwstock, cworders, clock, req, resp, faults, redisvars, now, rl>>

\* mutant of InsufficientStock: the stock test is missing
InsufficientStock_Never(currentStock, quantity) == FALSE

\* mutant of InsufficientStock: the last units cannot be bought
InsufficientStock_LessOrEqual(currentStock, quantity) == currentStock <= quantity

\* if (currentStock < quantity)
InsufficientStock(currentStock, quantity) == currentStock < quantity

\* SELECT id, stock, price, name FROM products WHERE id = $1 FOR UPDATE,
\* then the rows.length and currentStock < quantity tests and newStock
ExecSelect(h, c) ==
  /\ pc[h] = "select"
  /\ loc[h].wait \in {0, c}
  /\ LET p == req[h].productId
     IN IF p \notin Products
        THEN /\ pc' = [pc EXCEPT ![h] = "rb_notfound"]
             /\ loc' = [loc EXCEPT ![h].client = c, ![h].wait = 0]
             /\ UNCHANGED clock
        ELSE /\ ~Blocked(c, p, ForUpdate)
             /\ clock' = TakeLock(c, p, ForUpdate)
             /\ LET currentStock == View(c, p)
                IN IF InsufficientStock(currentStock, req[h].quantity)
                   THEN /\ pc' = [pc EXCEPT ![h] = "rb_oos"]
                        /\ loc' = [loc EXCEPT ![h].currentStock = currentStock,
                                       ![h].client = c, ![h].wait = 0]
                   ELSE /\ pc' = [pc EXCEPT ![h] = "update"]
                        /\ loc' = [loc EXCEPT ![h].currentStock = currentStock,
                                       ![h].newStock = currentStock - req[h].quantity,
                                       ![h].client = c, ![h].wait = 0]
  /\ Use(c)
  /\ UNCHANGED <<dbvars, ctxn, cwstock, cworders, req, resp, faults, redisvars, now, rl>>

\* mutant of ExecRollbackNotFound: a missing product is answered as sold out
ExecRollbackNotFound_AsOutOfStock(h, c) ==
  /\ pc[h] = "rb_notfound"
  /\ EndTxn(c)
  /\ Use(c)
  /\ resp' = [resp EXCEPT ![h] = Response(200, FALSE, "Out of stock")]
  /\ pc' = [pc EXCEPT ![h] = "done"]
  /\ loc' = [loc EXCEPT ![h] = NoLoc]
  /\ UNCHANGED <<dbvars, req, faults, redisvars, now, rl>>

\* rows.length === 0: await db.query('ROLLBACK'); return 404
ExecRollbackNotFound(h, c) ==
  /\ pc[h] = "rb_notfound"
  /\ EndTxn(c)
  /\ Use(c)
  /\ resp' = [resp EXCEPT ![h] = Response(404, FALSE, "Product not found")]
  /\ pc' = [pc EXCEPT ![h] = "done"]
  /\ loc' = [loc EXCEPT ![h] = NoLoc]
  /\ UNCHANGED <<dbvars, req, faults, redisvars, now, rl>>

\* currentStock < quantity: await db.query('ROLLBACK'); return 200 Out of stock
ExecRollbackOutOfStock(h, c) ==
  /\ pc[h] = "rb_oos"
  /\ EndTxn(c)
  /\ Use(c)
  /\ resp' = [resp EXCEPT ![h] = Response(200, FALSE, "Out of stock")]
  /\ pc' = [pc EXCEPT ![h] = "done"]
  /\ loc' = [loc EXCEPT ![h] = NoLoc]
  /\ UNCHANGED <<dbvars, req, faults, redisvars, now, rl>>

\* UPDATE products SET stock = $1 WHERE id = $2
ExecUpdate(h, c) ==
  /\ pc[h] = "update"
  /\ loc[h].wait \in {0, c}
  /\ LET p == req[h].productId
     IN /\ ~Blocked(c, p, NoKeyUpd)
        /\ IF ctxn[c]
           THEN /\ cwstock' = [cwstock EXCEPT ![c][p] = loc[h].newStock]
                /\ UNCHANGED stock
           ELSE /\ stock' = [stock EXCEPT ![p] = loc[h].newStock]
                /\ UNCHANGED cwstock
        /\ clock' = TakeLock(c, p, NoKeyUpd)
  /\ Use(c)
  /\ pc' = [pc EXCEPT ![h] = "insert"]
  /\ loc' = [loc EXCEPT ![h].client = c, ![h].wait = 0]
  /\ UNCHANGED <<orders, nextOrderId, ctxn, cworders, req, resp, faults, redisvars, now, rl>>

\* INSERT INTO orders (...) VALUES ($1, $2, $3, $4, 'completed') RETURNING id
ExecInsert(h, c) ==
  /\ pc[h] = "insert"
  /\ loc[h].wait \in {0, c}
  /\ LET p == req[h].productId
         o == [id |-> nextOrderId, userId |-> req[h].userId, productId |-> p,
               quantity |-> req[h].quantity, status |-> "completed", req |-> h]
     IN /\ ~Blocked(c, p, KeyShare)
        /\ IF ctxn[c]
           THEN /\ cworders' = [cworders EXCEPT ![c] = @ \cup {o}]
                /\ UNCHANGED orders
           ELSE /\ orders' = orders \cup {o}
                /\ UNCHANGED cworders
        /\ clock' = TakeLock(c, p, KeyShare)
        /\ loc' = [loc EXCEPT ![h].orderId = o.id, ![h].client = c, ![h].wait = 0]
  /\ nextOrderId' = nextOrderId + 1
  /\ Use(c)
  /\ pc' = [pc EXCEPT ![h] = "commit"]
  /\ UNCHANGED <<stock, ctxn, cwstock, req, resp, faults, redisvars, now, rl>>

\* a COMMIT that replaces the committed orders by the transaction's
ExecCommit_Overwrite(h, c) ==
  /\ pc[h] = "commit"
  /\ stock' = [p \in Products |-> View(c, p)]
  /\ orders' = cworders[c]
  /\ EndTxn(c)
  /\ Use(c)
  /\ resp' = [resp EXCEPT ![h] =
                [status |-> 200, success |-> TRUE, message |-> "Purchase successful",
                 remainingStock |-> loc[h].newStock, retryAfter |-> 0,
                 limit |-> 0, remaining |-> NoHeader]]
  /\ pc' = [pc EXCEPT ![h] = "done"]
  /\ loc' = [loc EXCEPT ![h] = NoLoc]
  /\ UNCHANGED <<nextOrderId, req, faults, redisvars, now, rl>>

\* await db.query('COMMIT'); return { success: true, order: {...} }
ExecCommit(h, c) ==
  /\ pc[h] = "commit"
  /\ stock' = [p \in Products |-> View(c, p)]
  /\ orders' = orders \cup cworders[c]
  /\ EndTxn(c)
  /\ Use(c)
  /\ resp' = [resp EXCEPT ![h] =
                [status |-> 200, success |-> TRUE, message |-> "Purchase successful",
                 remainingStock |-> loc[h].newStock, retryAfter |-> 0,
                 limit |-> 0, remaining |-> NoHeader]]
  /\ pc' = [pc EXCEPT ![h] = "done"]
  /\ loc' = [loc EXCEPT ![h] = NoLoc]
  /\ UNCHANGED <<nextOrderId, req, faults, redisvars, now, rl>>

\* the row lock the statement at this position asks for
LockMode(at) ==
  IF at = "select" THEN ForUpdate ELSE IF at = "update" THEN NoKeyUpd ELSE KeyShare

\* the pool hands the call's statement to client c, where it waits for the row
\* lock held by another session; the client is not free until it is granted
Wait(h, c) ==
  /\ pc[h] \in {"select", "update", "insert"}
  /\ loc[h].wait = 0
  /\ req[h].productId \in Products
  /\ Blocked(c, req[h].productId, LockMode(pc[h]))
  /\ loc' = [loc EXCEPT ![h].wait = c]
  /\ Use(c)
  /\ UNCHANGED <<dbvars, ctxn, cwstock, cworders, clock, pc, req, resp, faults,
                 redisvars, now, rl>>

\* the waiting statement gets its lock and runs on the client it waits on
Granted(h) ==
  /\ loc[h].wait # 0
  /\ \/ ExecSelect(h, loc[h].wait)
     \/ ExecUpdate(h, loc[h].wait)
     \/ ExecInsert(h, loc[h].wait)

\* idleTimeoutMillis: 30000: the pool closes a client that nothing has used for
\* 30 s; the server rolls the session's open transaction back
IdleTimeout(c) ==
  /\ c \in (clients \cap ConnIds) \ Busy
  /\ Destroy(c)
  /\ UNCHANGED <<dbvars, hvars, faults, redisvars, now, rl>>

\* connectionTimeoutMillis: 2000: no client is free and max are open, so
\* db.query waits for a client and rejects after 2 s; inside the inner try the
\* catch issues ROLLBACK, elsewhere the outer catch answers 500
PoolTimeout(h) ==
  /\ pc[h] \in {"begin", "rb_catch"} \cup InTransaction
  /\ loc[h].wait = 0
  /\ Available = {}
  /\ IF pc[h] \in {"begin", "rb_catch"}
     THEN /\ resp' = [resp EXCEPT ![h] = Response(500, FALSE, "Internal server error")]
          /\ pc' = [pc EXCEPT ![h] = "done"]
          /\ loc' = [loc EXCEPT ![h] = NoLoc]
     ELSE /\ pc' = [pc EXCEPT ![h] = "rb_catch"]
          /\ UNCHANGED <<resp, loc>>
  /\ UNCHANGED <<dbvars, poolvars, req, faults, redisvars, now, rl>>

\* catch (error) { await db.query('ROLLBACK'); throw error } -> 500
ExecRollbackCatch(h, c) ==
  /\ pc[h] = "rb_catch"
  /\ EndTxn(c)
  /\ Use(c)
  /\ resp' = [resp EXCEPT ![h] = Response(500, FALSE, "Internal server error")]
  /\ pc' = [pc EXCEPT ![h] = "done"]
  /\ loc' = [loc EXCEPT ![h] = NoLoc]
  /\ UNCHANGED <<dbvars, req, faults, redisvars, now, rl>>

\* mutant of FailInTry: the error is answered without the ROLLBACK of the catch
FailInTry_NoRollback(h, c) ==
  /\ pc[h] \in {"select", "rb_notfound", "rb_oos", "update", "insert", "commit"}
  /\ faults < MaxFaults
  /\ faults' = faults + 1
  /\ Destroy(c)
  /\ resp' = [resp EXCEPT ![h] = Response(500, FALSE, "Internal server error")]
  /\ pc' = [pc EXCEPT ![h] = "done"]
  /\ loc' = [loc EXCEPT ![h] = NoLoc]
  /\ UNCHANGED <<dbvars, req, redisvars, now, rl>>

\* a statement inside the inner try raises: control goes to the inner catch
FailInTry(h, c) ==
  /\ pc[h] \in {"select", "rb_notfound", "rb_oos", "update", "insert", "commit"}
 
  /\ faults < MaxFaults
  /\ faults' = faults + 1
  /\ Destroy(c)
  /\ pc' = [pc EXCEPT ![h] = "rb_catch"]
  /\ UNCHANGED <<dbvars, req, loc, resp, redisvars, now, rl>>

\* BEGIN, or the ROLLBACK of the inner catch, raises: the outer catch answers 500
FailOutside(h, c) ==
  /\ pc[h] \in {"begin", "rb_catch"}
 
  /\ faults < MaxFaults
  /\ faults' = faults + 1
  /\ Destroy(c)
  /\ resp' = [resp EXCEPT ![h] = Response(500, FALSE, "Internal server error")]
  /\ pc' = [pc EXCEPT ![h] = "done"]
  /\ loc' = [loc EXCEPT ![h] = NoLoc]
  /\ UNCHANGED <<dbvars, req, redisvars, now, rl>>

\* ------------------------------------------------- GET stock by product id
\* mutant of GetStock: the read locks the row (SELECT ... FOR UPDATE)
GetStock_ForUpdate(g, p, c) ==
  /\ p \in Products => ~Blocked(c, p, ForUpdate)
  /\ clock' = IF p \in Products THEN TakeLock(c, p, ForUpdate) ELSE clock
  /\ resp' = [resp EXCEPT ![g] =
                IF p \notin Products
                THEN Response(404, FALSE, "Product not found")
                ELSE [NoResp EXCEPT !.status = 200, !.success = TRUE,
                                    !.remainingStock = View(c, p)]]
  /\ Use(c)
  /\ UNCHANGED <<dbvars, ctxn, cwstock, cworders, pc, req, loc, faults,
                 redisvars, now, rl>>

\* SELECT stock FROM products WHERE id = $1 (no BEGIN, no FOR UPDATE);
\* 404 when no row, else { success: true, stock }
GetStock(g, p, c) ==
  /\ resp' = [resp EXCEPT ![g] =
                IF p \notin Products
                THEN Response(404, FALSE, "Product not found")
                ELSE [NoResp EXCEPT !.status = 200, !.success = TRUE,
                                    !.remainingStock = View(c, p)]]
  /\ Use(c)
  /\ UNCHANGED <<dbvars, ctxn, cwstock, cworders, clock, pc, req, loc, faults, redisvars, now, rl>>

\* the SELECT raises: catch -> 500
FailGetStock(g, c) ==
  /\ faults < MaxFaults
  /\ faults' = faults + 1
  /\ Destroy(c)
  /\ resp' = [resp EXCEPT ![g] = Response(500, FALSE, "Internal server error")]
  /\ UNCHANGED <<dbvars, pc, req, loc, redisvars, now, rl>>

\* the steps of the POST /api/purchase invocations while no statement raises
Purchase ==
  \/ \E h \in Handlers : Post(h)
  \/ \E h \in Handlers : RLIncr(h)
  \/ \E h \in Handlers : RLExpire(h)
  \/ \E h \in Handlers : RLTtl(h)
  \/ \E h \in Handlers : MwUser(h)
  \/ \E h \in Handlers : MwIp(h)
  \/ \E h \in Handlers, c \in Available : ExecBegin(h, c)
  \/ \E h \in Handlers, c \in Available : ExecSelect(h, c)
  \/ \E h \in Handlers, c \in Available : ExecRollbackNotFound(h, c)
  \/ \E h \in Handlers, c \in Available : ExecRollbackOutOfStock(h, c)
  \/ \E h \in Handlers, c \in Available : ExecUpdate(h, c)
  \/ \E h \in Handlers, c \in Available : ExecInsert(h, c)
  \/ \E h \in Handlers, c \in Available : ExecCommit(h, c)

\* purchases and stock queries on a healthy record store
Next ==
  \/ Purchase
  \/ \E p \in ProductIds, c \in Available : GetStock(Getter, p, c)

Spec == Init /\ [][Next]_vars

\* purchases on a record store whose statements may raise errors
NextFault ==
  \/ Purchase
  \/ \E h \in Handlers, c \in Available : ExecRollbackCatch(h, c)
  \/ \E h \in Handlers, c \in Available : FailInTry(h, c)
  \/ \E h \in Handlers, c \in Available : FailOutside(h, c)
  \/ \E c \in Available : FailGetStock(Getter, c)

SpecFault == Init /\ [][NextFault]_vars

\* purchases on a counter store whose commands or connection may fail
NextRedisFault ==
  \/ Purchase
  \/ \E h \in Handlers : FailRedis(h)
  \/ \E h \in Handlers : FailGetRedisClient(h)

SpecRedisFault == Init /\ [][NextRedisFault]_vars

\* the steps of one POST /api/purchase invocation after its request arrived
Step(h) ==
  \/ RLIncr(h) \/ RLExpire(h) \/ RLTtl(h) \/ MwUser(h) \/ MwIp(h)
  \/ \E c \in Available :
       \/ ExecBegin(h, c) \/ ExecSelect(h, c) \/ ExecRollbackNotFound(h, c)
       \/ ExecRollbackOutOfStock(h, c) \/ ExecUpdate(h, c) \/ ExecInsert(h, c)
       \/ ExecCommit(h, c)

\* one purchase call whose statements wait on their client for row locks,
\* while stock queries keep arriving
NextLive ==
  \/ Post(1)
  \/ Step(1)
  \/ \E c \in Available : Wait(1, c)
  \/ Granted(1)
  \/ \E c \in ConnIds : IdleTimeout(c)
  \/ \E p \in ProductIds, c \in Available : GetStock(Getter, p, c)

InitLive ==
  /\ Init
  /\ \/ \A k \in Keys : rcount[k] = 0
     \/ rcount[Key(<<"ip", ClientIp>>)] = IpMax

\* a statement is handed to the open, free client c
StatementOn(c) ==
  /\ c \in (clients \cap ConnIds) \ Busy
  /\ \/ \E h \in Handlers :
          \/ ExecBegin(h, c) \/ ExecSelect(h, c) \/ ExecRollbackNotFound(h, c)
          \/ ExecRollbackOutOfStock(h, c) \/ ExecUpdate(h, c) \/ ExecInsert(h, c)
          \/ ExecCommit(h, c) \/ Wait(h, c)
     \/ \E p \in ProductIds : GetStock(Getter, p, c)

\* every invocation takes its next step when it can; the idle timer of a client
\* restarts with every use: a client that stays open and free is closed by the
\* timer unless statements keep being handed to it
SpecLive ==
  /\ InitLive /\ [][NextLive]_vars
  /\ \A h \in Handlers : WF_vars(Step(h) \/ Granted(h))
  /\ \A c \in ConnIds : WF_vars(IdleTimeout(c) \/ StatementOn(c))

\* one purchase call for the product while calls for other products fill the
\* pool
NextPool ==
  \/ Post(1)
  \/ Step(1)
  \/ PoolTimeout(1)
  \/ OtherWait
  \/ OtherDone

SpecPool == Init /\ [][NextPool]_vars

\* one purchase call whose body carries any quantity
NextQuantity ==
  \/ PostBody(1, AcceptedQuantities)
  \/ Step(1)

SpecQuantity == Init /\ [][NextQuantity]_vars

\* requests for the product, or without productId, with every combination of
\* the identifying fields
IdentRequests ==
  {[NoReq EXCEPT !.productId = p, !.userId = u, !.queryUserId = qu,
                 !.forwardedFor = f, !.realIp = ip] :
     p \in {1, NoProduct}, u \in BodyUserIds, qu \in QueryUserIds,
     f \in ForwardedFors, ip \in RealIps}

\* a request of another user that came through the proxy chain 10.0.0.1, 10.0.0.3
SecondRequests ==
  {[NoReq EXCEPT !.productId = 1, !.userId = UserOf(2),
                 !.forwardedFor = << <<"10.0.0.1", ",", "10.0.0.3">> >>]}

\* two purchase calls whose requests carry a query string and address headers
NextIdent ==
  \/ PostRequest(1, IdentRequests)
  \/ PostRequest(2, SecondRequests)
  \/ Step(1)
  \/ Step(2)

SpecIdent == Init /\ [][NextIdent]_vars

\* the rate limiter alone: standalone checkRateLimit calls on an empty Redis
InitRL ==
  /\ Init
  /\ \A k \in Keys : rcount[k] = 0

NextRL ==
  \/ \E k \in Checkers : StartCheck(k)
  \/ \E k \in Checkers : RLIncr(k)
  \/ \E k \in Checkers : RLExpire(k)
  \/ \E k \in Checkers : RLTtl(k)
  \/ Tick

SpecRL == InitRL /\ [][NextRL]_vars

TypeOK ==
  /\ stock \in [Products -> Int]
  /\ clients \subseteq ConnIds \cup OtherIds

\* ------------------------------------------------------------ properties
SumQty(S) == LET RECURSIVE Sum(_)
                 Sum(T) == IF T = {} THEN 0
                           ELSE LET o == CHOOSE x \in T : TRUE
                                IN o.quantity + Sum(T \ {o})
             IN Sum(S)

OrdersOf(p) == {o \in orders : o.productId = p}
OrdersBy(h) == {o \in orders : o.req = h}
Min(a, b) == IF a <= b THEN a ELSE b

\* no POST /api/purchase invocation is between its request and its response
Quiescent == \A h \in Handlers : pc[h] \in {"idle", "done"}

Sold(h) == resp[h].status = 200 /\ resp[h].success
OutOfStock(h) == resp[h] = Response(200, FALSE, "Out of stock")

\* C1: the quantities of the committed orders of a product never add up to
\* more than its initial stock.
C1_NoOverselling ==
  \A p \in Products : SumQty(OrdersOf(p)) <= InitStock

\* C2: whenever no purchase is in flight, initial stock minus current stock
\* equals the sum of the quantities of the product's committed orders.
C2_Conservation ==
  Quiescent => \A p \in Products : InitStock - stock[p] = SumQty(OrdersOf(p))

\* C3: when all the handlers bought the same quantity q of the one product and
\* none was rate limited, exactly min(N, S div q) of them were answered
\* success, the others "Out of stock", and the stock ends at S - q * successes.
C3_ExactSuccessCount ==
  LET q == req[1].quantity
      n == Cardinality({h \in Handlers : Sold(h)})
  IN (\A h \in Handlers :
        /\ pc[h] = "done"
        /\ req[h].productId = 1 /\ req[h].userId # None /\ req[h].quantity = q
        /\ resp[h].status \notin {429, 500})
     => /\ \A h \in Handlers : Sold(h) \/ OutOfStock(h)
        /\ n = Min(NumHandlers, InitStock \div q)
        /\ stock[1] = InitStock - q * n

\* C5: a call answered success: true has exactly one committed order row.
C5_SuccessIsCommitted ==
  \A h \in Handlers : Sold(h) => Cardinality(OrdersBy(h)) = 1

\* C4: the committed stock of every product is never negative.
C4_StockNonNegative ==
  \A p \in Products : stock[p] >= 0

\* C4 witness: two purchases went through and emptied the stock.
C4_Witness ==
  /\ stock[1] = 0
  /\ \A h \in Handlers : Sold(h)

\* C6: a call answered 500 has no committed order row.
C6_FailureLeavesNoOrder ==
  \A h \in Handlers : resp[h].status = 500 => OrdersBy(h) = {}

C8_NotFound ==
  [][\A h \in Handlers :
       (req[h].productId \notin Products /\ req[h].productId # NoProduct
        /\ pc[h] # "idle" /\ pc'[h] # pc[h])
         => /\ pc[h] = "select" => pc'[h] = "rb_notfound"
            /\ pc[h] = "rb_notfound"
                 => resp'[h] = Response(404, FALSE, "Product not found")
            /\ pc'[h] \notin {"rb_oos", "update", "insert", "commit"}
            /\ stock' = stock /\ orders' = orders]_vars

\* C8 witness: 404 was answered while the other call had written its update.
C8_Witness ==
  \E h, g \in Handlers :
    /\ resp[h].status = 404
    /\ pc[g] \in {"insert", "commit"}

\* C9: a step in which no purchase handler moves (a stock query) changes no
\* committed or uncommitted stock or order, no rate-limit counter and no row
\* lock.
C9_ReadPathPure ==
  [][(pc' = pc /\ rl' = rl)
       => /\ stock' = stock /\ orders' = orders /\ nextOrderId' = nextOrderId
          /\ cwstock' = cwstock /\ cworders' = cworders /\ ctxn' = ctxn
          /\ clock' = clock
          /\ rcount' = rcount /\ rttl' = rttl]_vars

\* C9 witness: the query answered with a stock while a purchase held the row
\* lock in an open transaction.
C9_Witness ==
  /\ resp[Getter].status = 200
  /\ resp[Getter].remainingStock < InitStock
  /\ \E c \in ConnIds : clock[c][1] = ForUpdate
  /\ \E h \in Handlers : pc[h] \in {"update", "insert", "commit"}

\* C10: a finished check is allowed exactly when its post-increment count is in
\* 1..maxRequests, a denied check carries retryAfter > 0, and of the checks
\* with maxRequests = N on one key in one window at most N are allowed.
C10_WindowLaw ==
  /\ \A k \in Checkers :
       rl[k].pc = "done" =>
         /\ rl[k].allowed <=> rl[k].current \in 1..rl[k].max
         /\ ~rl[k].allowed => rl[k].retryAfter > 0
  /\ \A key \in Keys, n \in 1..MaxN, t \in 0..MaxTicks :
       Cardinality({k \in Checkers :
                      /\ rl[k].pc = "done" /\ rl[k].allowed
                      /\ rl[k].key = key /\ rl[k].max = n /\ rl[k].born = t}) <= n

\* C10 witness: MaxN checks of one window were allowed and one more denied.
C10_Witness ==
  \E key \in Keys, t \in 0..MaxTicks :
    LET W == {k \in Checkers : rl[k].pc = "done" /\ rl[k].key = key
                               /\ rl[k].max = MaxN /\ rl[k].born = t}
    IN /\ Cardinality({k \in W : rl[k].allowed}) = MaxN
       /\ \E k \in W : ~rl[k].allowed /\ rl[k].current = MaxN + 1

\* C11: when a check was denied with retryAfter = r and r seconds have passed,
\* the first check of the same identifier made after that is allowed.
C11_CounterReset ==
  \A k1, k2 \in Checkers :
    ( /\ rl[k1].pc = "done" /\ ~rl[k1].allowed
      /\ rl[k2].pc = "done" /\ rl[k2].key = rl[k1].key
      /\ rl[k2].at >= rl[k1].until
      /\ \A k3 \in Checkers \ {k2} :
           (rl[k3].key = rl[k1].key /\ rl[k3].pc \in {"expire", "ttl", "done"})
             => rl[k3].at < rl[k1].until )
    => rl[k2].allowed

\* C12: a check whose INCR, EXPIRE or TTL raised an error has returned
\* allowed = true, whatever the count, and its caller has not been answered
\* with an error: the purchase handler is still on its way.
C12_FailOpenOnError ==
  \A h \in Handlers :
    rl[h].error # None
      => /\ rl[h].pc = "done" /\ rl[h].allowed
         /\ pc[h] \in {"mw_user", "mw_ip"} /\ resp[h] = NoResp

\* C12 witness: the TTL lookup of a check whose count was above the limit
\* raised, and the check returned allowed.
C12_Witness ==
  \E h \in Handlers :
    /\ rl[h].error = "ttl" /\ rl[h].current > rl[h].max
    /\ rl[h].pc = "done" /\ rl[h].allowed

\* C13: when the counter-store client cannot be obtained at the start of a
\* check, the check returns allowed = true and the purchase handler is not
\* answered 429 or 500.
C13_FailOpenUnreachable ==
  [][\A h \in Handlers :
       (pc[h] = "mw_user" /\ rl[h].pc = "incr" /\ rl'[h] # rl[h]
        /\ faults' = faults + 1 /\ rl'[h].error = None)
         => /\ rl'[h].pc = "done" /\ rl'[h].allowed
            /\ resp'[h].status \notin {429, 500}]_vars

\* C14: on a healthy counter store the user tier lets a purchase request pass
\* when it is one of the first 5 of its user in the window and answers the 6th
\* and later ones 429 with a positive Retry-After; no step of such a request
\* changes the committed stock or orders, and it takes no step after the 429.
C14_UserLimit ==
  [][\A h \in Handlers :
       /\ (pc[h] = "mw_user" /\ pc'[h] # "mw_user")
            => /\ rl[h].current \in 1..UserMax
                    => (pc'[h] = "mw_ip" /\ resp'[h] = NoResp)
               /\ rl[h].current > UserMax
                    => /\ resp'[h].status = 429 /\ resp'[h].retryAfter > 0
                       /\ pc'[h] = "done"
       /\ (pc[h] = "mw_user" /\ rl[h].current > UserMax
           /\ (pc'[h] # pc[h] \/ rl'[h] # rl[h]))
            => (stock' = stock /\ orders' = orders)
       /\ resp[h].status = 429 => (pc'[h] = "done" /\ resp'[h] = resp[h])]_vars

\* C14 witness: the sixth request of u1 was answered 429 with a positive
\* Retry-After while the request of the other user bought.
C14_Witness ==
  \E h, g \in Handlers :
    /\ resp[h].status = 429 /\ resp[h].message = "Rate limit exceeded for user"
    /\ resp[h].retryAfter > 0
    /\ rcount[Key(<<"user", FinalUserId(req[h].userId)>>)] = UserMax + 1
    /\ Sold(g) /\ stock[1] < InitStock

IpKey == Key(<<"ip", ClientIp>>)

ValidBody(h) == req[h].productId # NoProduct /\ Truthy(req[h].userId)

\* C16: after the user tier allowed, the IP identifier is checked against the
\* budget of 10; an IP denial is answered 429 with the IP tier's retryAfter and
\* limit 10; the handler reaches BEGIN only from an allowed IP tier, and an
\* allowed IP tier with a valid body always goes on to BEGIN.
C16_IpTier ==
  [][\A h \in Handlers :
       /\ (pc[h] = "mw_user" /\ pc'[h] # "mw_user" /\ rl[h].allowed)
            => (pc'[h] = "mw_ip" /\ rl'[h] = Call(<<"ip", ClientIp>>, 10, 60000))
       /\ (pc[h] = "mw_ip" /\ pc'[h] # "mw_ip" /\ ~rl[h].allowed)
            => /\ resp'[h].status = 429
               /\ resp'[h].message = "Rate limit exceeded for IP"
               /\ resp'[h].retryAfter = rl[h].retryAfter
               /\ resp'[h].limit = 10 /\ resp'[h].remaining = 0
               /\ pc'[h] = "done"
       /\ (pc[h] = "mw_ip" /\ pc'[h] # "mw_ip" /\ rl[h].allowed)
            => /\ resp'[h].status # 429
               /\ ValidBody(h) => (pc'[h] = "begin" /\ resp'[h] = NoResp)
       /\ (pc[h] # "begin" /\ pc'[h] = "begin")
            => (pc[h] = "mw_ip" /\ rl[h].pc = "done" /\ rl[h].allowed)]_vars

\* C16 witness: the user tier allowed and the IP tier denied the 11th request
\* of the address with the TTL of the IP counter.
C16_Witness ==
  \E h \in Handlers :
    /\ resp[h].status = 429 /\ resp[h].message = "Rate limit exceeded for IP"
    /\ resp[h].limit = IpMax /\ resp[h].retryAfter = rttl[IpKey]
    /\ rcount[Key(<<"user", FinalUserId(req[h].userId)>>)] = 1
    /\ rcount[IpKey] = IpMax + 1

\* C17: a request without productId or without userId is answered 400, in
\* every state of the rate-limit counters, and never reaches BEGIN.
C17_ValidationFirst ==
  \A h \in Handlers :
    (pc[h] # "idle" /\ ~ValidBody(h))
      => /\ pc[h] \in {"mw_user", "mw_ip", "done"}
         /\ pc[h] = "done" => resp[h].status = 400

\* C18: a check that is denied returns retryAfter = the TTL of its counter
\* when that TTL is positive and ceil(windowMs / 1000) otherwise; retryAfter of
\* a denied check is positive.
C18_RetryAfter ==
  [][\A k \in Checkers :
       (rl[k].pc = "ttl" /\ rl'[k].pc = "done")
         => LET ttl == rttl[rl[k].key]
            IN /\ ~rl'[k].allowed
               /\ ttl > 0 => rl'[k].retryAfter = ttl
               /\ ttl <= 0 =>
                    \E w \in CheckedWindowsMs :
                      /\ rl'[k].retryAfter * 1000 >= w
                      /\ (rl'[k].retryAfter - 1) * 1000 < w
               /\ rl'[k].retryAfter > 0]_vars

\* C18 witness: a check was denied while its counter had no expiry yet (TTL
\* -1) and returned the window length.
C18_Witness ==
  \E k \in Checkers :
    /\ rl[k].pc = "done" /\ ~rl[k].allowed
    /\ rl[k].born = rborn[rl[k].key] /\ rttl[rl[k].key] = -1
    /\ rl[k].retryAfter = rl[k].window /\ rl[k].window * 1000 > 1500

\* the orders in which the calls can be run one at a time
SerialOrders ==
  {o \in [1..NumHandlers -> Handlers] :
     \A i, j \in 1..NumHandlers : o[i] = o[j] => i = j}

\* the calls run one at a time in the given order on the initial stock: the
\* final stock and each call's outcome and remainingStock
RECURSIVE SerialRun(_, _, _)
SerialRun(order, i, st) ==
  IF i > Len(order) THEN st
  ELSE LET h == order[i]
           p == req[h].productId
           q == req[h].quantity
       IN IF p \notin Products
          THEN SerialRun(order, i + 1, [st EXCEPT !.out[h] = "notfound"])
          ELSE IF st.stock[p] < q
          THEN SerialRun(order, i + 1, [st EXCEPT !.out[h] = "outofstock"])
          ELSE SerialRun(order, i + 1,
                         [st EXCEPT !.out[h] = "sold", !.stock[p] = @ - q,
                                    !.remaining[h] = st.stock[p] - q])

SerialStart ==
  [stock |-> [p \in Products |-> InitStock],
   out |-> [h \in Handlers |-> None],
   remaining |-> [h \in Handlers |-> 0]]

\* C19: when all calls name the same product, passed the middleware and have
\* returned, the committed stock, the committed orders and every call's
\* response are those of running the calls one at a time in some order.
C19_Serializable ==
  (\A h \in Handlers :
     /\ pc[h] = "done" /\ ValidBody(h) /\ resp[h].status \in {200, 404}
     /\ req[h].productId = req[1].productId)
  => \E order \in SerialOrders :
       LET st == SerialRun(order, 1, SerialStart)
       IN /\ stock = st.stock
          /\ \A h \in Handlers :
               /\ st.out[h] = "sold"
                    => /\ Sold(h) /\ resp[h].remainingStock = st.remaining[h]
                       /\ \E o \in orders :
                            /\ OrdersBy(h) = {o}
                            /\ o.quantity = req[h].quantity
                            /\ o.productId = req[h].productId
               /\ st.out[h] = "outofstock" => (OutOfStock(h) /\ OrdersBy(h) = {})
               /\ st.out[h] = "notfound"
                    => (resp[h].status = 404 /\ OrdersBy(h) = {})

\* C20: at no time are two calls for the same product both between their
\* locking read and their COMMIT or ROLLBACK.
C20_MutualExclusion ==
  \A p \in Products :
    Cardinality({h \in Handlers :
                   /\ req[h].productId = p
                   /\ pc[h] \in {"rb_oos", "update", "insert", "commit"}}) <= 1

\* C21: the locking read, the UPDATE and the INSERT of a call run on the client
\* of its BEGIN, inside the transaction open there; its COMMIT or ROLLBACK ends
\* that transaction; two calls in flight never use the same client; and after
\* its locking read the call's client holds the row lock until the call ends.
C21_OneTransaction ==
  [][\A h \in Handlers :
       /\ (pc[h] \in {"select", "update", "insert"} /\ pc'[h] # pc[h])
            => (loc'[h].client = loc[h].client /\ ctxn[loc[h].client])
       /\ (pc[h] \in {"rb_notfound", "rb_oos", "commit"} /\ pc'[h] = "done")
            => (ctxn[loc[h].client] /\ ~ctxn'[loc[h].client])
       /\ \A g \in Handlers \ {h} :
            (pc'[h] \in InTransaction /\ pc'[g] \in InTransaction)
              => loc'[h].client # loc'[g].client
       /\ pc'[h] \in {"rb_oos", "update", "insert", "commit"}
            => clock'[loc'[h].client][req[h].productId] = ForUpdate]_vars

\* C22: every call that is between its BEGIN and its COMMIT or ROLLBACK
\* eventually returns a response, and every row lock that is held is
\* eventually released.
C22_LockReleased ==
  /\ \A h \in Handlers : (pc[h] \in InTransaction) ~> (pc[h] = "done")
  /\ \A c \in ConnIds, p \in Products :
       (clock[c][p] # LockFree) ~> (clock[c][p] = LockFree)

\* C23: whatever number of calls for other products are in flight or wait
\* for their locks, a call for this product always finds a pool client for its
\* next statement and is never failed for lack of one.
C23_RowGranularity ==
  \A h \in Handlers :
    /\ pc[h] \in {"begin"} \cup InTransaction => Available # {}
    /\ resp[h].status # 500

\* C24: the expiry of a counter is set only by the check whose increment
\* returned 1; no other check changes it; once set, the second at which the
\* counter expires never moves; and a counter never outlives the window that
\* started with its first request.
C24_FixedWindow ==
  [][\A key \in Keys :
       /\ \A k \in Checkers :
            (rl'[k] # rl[k] /\ rl[k].key = key /\ rttl'[key] # rttl[key])
              => \/ rl[k].pc = "expire" /\ rl[k].current = 1
                 \/ rl[k].pc = "incr" /\ rl'[k].current = 1
       /\ (rttl[key] > 0 /\ rttl'[key] > 0)
            => now' + rttl'[key] = now + rttl[key]
       /\ rcount'[key] > 0
            => \E w \in CheckedWindowsMs : now' < rborn'[key] + WindowSeconds(w)]_vars

\* C25: a counter that exists, and whose creating check is no longer between
\* its INCR and its EXPIRE, has an expiry.
C25_CounterHasExpiry ==
  \A key \in Keys :
    ( /\ rcount[key] > 0
      /\ \A h \in Handlers : ~(rl[h].key = key /\ rl[h].pc = "expire") )
    => rttl[key] > 0

\* C26: a check whose count was above the limit and whose TTL lookup raised
\* an error returns allowed = false with retryAfter = the window length.
C26_TtlFailureDenies ==
  \A h \in Handlers :
    (rl[h].pc = "done" /\ rl[h].error = "ttl")
      => (~rl[h].allowed /\ rl[h].retryAfter = rl[h].window)

UserKey(h) == Key(<<"user", FinalUserId(req[h].userId)>>)

\* the returned request of handler h counts against the budget of this key: its
\* own user key unless the IP tier denied it, the IP key unless the user tier
\* denied it
Charged(h, key) ==
  /\ pc[h] = "done"
  /\ \/ key = UserKey(h) /\ resp[h].message # "Rate limit exceeded for IP"
     \/ key = IpKey /\ resp[h].message # "Rate limit exceeded for user"

\* C27: the tiers use different keys, and when no request is in flight every
\* counter holds what it held at the start plus the requests charged to it: a
\* request denied at the user tier is not in the IP counter and a request
\* denied at the IP tier is not in the user counter.
C27_TierIndependence ==
  /\ \A h \in Handlers : UserKey(h) # IpKey
  /\ Quiescent =>
       \E pre \in Preloads : \A key \in Keys :
         rcount[key] = pre[key].count
                         + Cardinality({h \in Handlers : Charged(h, key)})

\* C28: the maxRequests of the IP-tier check of a purchase request is smaller
\* than the maxRequests the purchase handler passes for the user tier.
C28_IpStricter ==
  \A h \in Handlers :
    (pc[h] = "mw_ip" /\ rl[h].key = IpKey) => rl[h].max < UserMax

\* C29: every committed order has a positive quantity.
C29_PositiveQuantity ==
  \A o \in orders : o.quantity >= 1

\* C30: a committed order is never updated or deleted: every step of a
\* purchase, a stock query or a rate-limit check keeps every committed order.
C30_OrdersImmutable == [][orders \subseteq orders']_vars

\* two calls have returned and each has committed an order
C30_Witness ==
  \E h, g \in Handlers :
    /\ h # g
    /\ pc[h] = "done" /\ pc[g] = "done"
    /\ OrdersBy(h) # {} /\ OrdersBy(g) # {}

\* C31: a stock query that answers with a stock returns the committed stock of
\* a product at the instant of its read, never a value that is not committed.
C31_ReadCommitted ==
  [][(resp'[Getter] # resp[Getter] /\ resp'[Getter].status = 200)
       => \E p \in Products : resp'[Getter].remainingStock = stock[p]]_vars

FirstAddress(text) == IF text = <<>> \/ text[1] = "," THEN "" ELSE text[1]

\* the IP-tier checks of two requests with the same first forwarded address
\* use the same key
SharedIpCounter ==
  \A h, g \in Handlers :
    ( /\ pc[h] = "mw_ip" /\ pc[g] = "mw_ip"
      /\ req[h].forwardedFor # <<>> /\ req[g].forwardedFor # <<>>
      /\ FirstAddress(req[h].forwardedFor[1]) # ""
      /\ FirstAddress(req[h].forwardedFor[1]) = FirstAddress(req[g].forwardedFor[1]) )
    => rl[h].key = rl[g].key

\* C33: the IP-tier key is rate_limit:ip:<addr>, the addr being the first
\* comma-separated entry of x-forwarded-for when the header is present,
\* otherwise x-real-ip, otherwise 'unknown'; two requests with the same first
\* forwarded address share one IP counter.
C33_IpResolution ==
  /\ \A h \in Handlers :
       pc[h] = "mw_ip" =>
         rl[h].key = <<"rate_limit", "ip",
                       IF req[h].forwardedFor # <<>>
                       THEN FirstAddress(req[h].forwardedFor[1])
                       ELSE IF req[h].realIp # None THEN req[h].realIp
                       ELSE "unknown">>
  /\ SharedIpCounter

\* C33 as amended: the first entry of x-forwarded-for is used when the header
\* is present and the entry is non-empty, otherwise x-real-ip when present and
\* non-empty, otherwise 'unknown'.
C33_IpResolved ==
  /\ \A h \in Handlers :
       pc[h] = "mw_ip" =>
         rl[h].key = <<"rate_limit", "ip",
                       IF /\ req[h].forwardedFor # <<>>
                          /\ FirstAddress(req[h].forwardedFor[1]) # ""
                       THEN FirstAddress(req[h].forwardedFor[1])
                       ELSE IF req[h].realIp # None /\ req[h].realIp # ""
                       THEN req[h].realIp
                       ELSE "unknown">>
  /\ SharedIpCounter

\* two requests forwarded as 10.0.0.1, 10.0.0.2 and as 10.0.0.1, 10.0.0.3, one
\* of them also carrying x-real-ip, were both counted under rate_limit:ip:10.0.0.1
C33_Witness ==
  /\ req[1].forwardedFor = << <<"10.0.0.1", ",", "10.0.0.2">> >>
  /\ req[1].realIp = "10.0.0.9"
  /\ req[2].forwardedFor = << <<"10.0.0.1", ",", "10.0.0.3">> >>
  /\ pc[1] = "mw_ip" /\ rl[1].pc = "done"
  /\ pc[2] = "mw_ip" /\ rl[2].pc = "done"
  /\ rcount[<<"rate_limit", "ip", "10.0.0.1">>] = 2

\* C34: a call whose BEGIN has returned returns its response only from a
\* COMMIT or a ROLLBACK, on the not-found, out-of-stock, success and error
\* paths; it comes to its COMMIT only from an INSERT that returned an order id,
\* and to its INSERT only from its UPDATE.
C34_Bracketing ==
  [][\A h \in Handlers :
       /\ (pc[h] \in InTransaction \cup {"rb_catch"} /\ pc'[h] = "done")
            => pc[h] \in {"rb_notfound", "rb_oos", "rb_catch", "commit"}
       /\ (pc[h] # "commit" /\ pc'[h] = "commit")
            => (pc[h] = "insert" /\ loc'[h].orderId # 0)
       /\ (pc[h] # "insert" /\ pc'[h] = "insert") => pc[h] = "update"
       /\ (pc[h] # "done" /\ pc'[h] = "done" /\ Sold(h)') => pc[h] = "commit"]_vars

\* one call committed and was answered with its order; another inserted its
\* order, had its COMMIT raise, issued the ROLLBACK of the catch and was
\* answered 500
C34_Witness ==
  \E h, g \in Handlers :
    /\ pc[h] = "done" /\ Sold(h)
    /\ pc[g] = "done" /\ resp[g].status = 500 /\ OrdersBy(g) # {}

\* C35: no step of a purchase, a stock query or a rate-limit check raises the
\* committed stock of a product.
C35_StockNeverIncreases ==
  [][\A p \in Products : stock'[p] <= stock[p]]_vars

\* the user-tier key of the request of h: its identifier is 'anonymous' when
\* neither the body nor the query string gives a userId
ExpectedUserKey(h) ==
  <<"rate_limit", "user",
    IF req[h].userId # None /\ req[h].userId # "" THEN req[h].userId
    ELSE IF req[h].queryUserId # None /\ req[h].queryUserId # ""
    THEN req[h].queryUserId
    ELSE "anonymous">>

C37_RemainingStock ==
  [][\A h \in Handlers :
       (pc[h] = "commit" /\ pc'[h] = "done" /\ Sold(h)')
         => /\ resp'[h].remainingStock = stock'[req[h].productId]
            /\ resp'[h].remainingStock = loc[h].currentStock - req[h].quantity]_vars
====
